---- MODULE Spec2Model ----
(***************************************************************************)
(* A model of package flog: BufferedLog (BufferedLog.go), DirectLog        *)
(* (DirectLog.go) and the factory New (init.go).                           *)
(*                                                                         *)
(* One logger handle is modelled.  Its kind (logType) is the argument New  *)
(* was called with.  Foreground callers run Print, Close, Enable, Disable  *)
(* and SetFlushIntervalSec concurrently; a BufferedLog also runs the       *)
(* asyncFlush goroutine.                                                   *)
(*                                                                         *)
(* bytes.Buffer is not synchronised.  BufferedLog.flushLogs takes no lock, *)
(* so a timer flush runs concurrently with appends: both are modelled at   *)
(* the granularity of bytes.Buffer's own reads and writes of its slice     *)
(* (Write: read b.buf, reslice, copy; WriteTo: write the slice out, then   *)
(* Reset), one element of the buffer per log line.                         *)
(*                                                                         *)
(* Spec does not measure time: an armed time.After may fire at any later   *)
(* step.  TimedSpec counts the seconds of asyncFlush's wait.  RotateSpec   *)
(* adds the factory's Rotate on the handle.  New's own failures are drawn  *)
(* in Init.                                                                *)
(***************************************************************************)
EXTENDS Integers, Sequences, FiniteSets, TLC

\* ------------------------------------------------------------------ bounds
NumCallers == 2
MaxPrints == 2
MaxCloses == 2
MaxInterval == 1

\* ------------------------------------------------------- program constants
DefaultFlushIntervalSec == 5

BufferedFile == 0
DirectFile == 1

Callers == 1..NumCallers
Closers == 1..MaxCloses
\* The intervals callers set: short ones, and the default again.
Intervals == (1..MaxInterval) \cup {DefaultFlushIntervalSec}

\* The log's friendly name, and the format strings callers pass to Print.
LogName == <<"l", "g">>
Formats == { <<"m">>, <<"m", "\n">> }

VARIABLES
    logType,      \* BufferedFile or DirectFile: the logType New was given
    setup,        \* what New met: "ok", or the step that failed ("mkdir", "open")
    newLog,       \* what New returned: "log", or "nil"
    enabled,      \* enabled int32
    flushSec,     \* BufferedLog.flushSec int32
    buffer,       \* BufferedLog.buffer: the lines of b.buf
    file,         \* the lines on disk in the backing file
    fileOpen,     \* the *os.File is open
    lockW,        \* lock sync.RWMutex: the closer holding or awaiting Lock (0: none)
    readers,      \* lock sync.RWMutex: the callers holding RLock
    logMu,        \* the log.Logger's own mutex is held
    pc,           \* each caller's position in Print
    calls,        \* each caller's number of Print calls so far
    pline,        \* each caller's formatted line
    pview,        \* each caller's b.buf[:m] as Buffer.Write read it
    cpc,          \* each closer's position in Close
    cview,        \* each closer's b.buf[:m] as Buffer.Write read it
    bpc,          \* the asyncFlush goroutine's position
    bview,        \* asyncFlush's b.buf[:m] as Buffer.Write read it
    sampled,      \* asyncFlush's local flushSec: what time.After was armed with
    elapsed,      \* the seconds since time.After was armed, where time is counted
    aborted,      \* "no", or why the process panicked
    ioFailed,     \* history: a write or sync on the open file has failed
    drained,      \* history: a flush has ended and no append has run since
    handoffs,     \* the completed handoffs on chClose, in order
    accepted,     \* history: Print calls that found the logger enabled
    dropped,      \* history: Print calls that found the logger disabled
    afterClose,   \* history: Print calls that took RLock after a Close returned
    inWindow,     \* history: Disable has returned and Enable was not called since
    calledDisabled, \* history: Print calls made inside such a window
    rotator,      \* the closer whose Close is the one Rotate calls (0: none)
    rpc,          \* Rotate's position
    archived,     \* history: the file as os.Rename moved it
    newBuffer,    \* the buffer of the logger Rotate creates
    newFile,      \* the lines on disk in the file Rotate's New creates
    newFlushSec   \* flushSec of the logger Rotate creates

ctorVars == <<logType, setup, newLog>>
rotVars == <<rotator, rpc, archived, newBuffer, newFile, newFlushSec>>
lockVars == <<lockW, readers, logMu>>
flagVars == <<enabled, flushSec>>
diskVars == <<file, fileOpen>>
callerVars == <<pc, calls, pline, pview>>
closerVars == <<cpc, cview>>
bgVars == <<bpc, bview, sampled>>
histVars == <<accepted, dropped, afterClose, inWindow, calledDisabled>>

vars == <<logType, setup, newLog, enabled, flushSec, buffer, file, fileOpen, lockW, readers,
          logMu, pc, calls, pline, pview, cpc, cview, bpc, bview, sampled,
          elapsed,
          aborted, ioFailed, drained, handoffs, accepted, dropped, afterClose, inWindow,
          calledDisabled, rotator, rpc, archived, newBuffer, newFile,
          newFlushSec>>

\* ------------------------------------------------------------- formatting
ToUpper(s) ==
    [i \in 1..Len(s) |->
        CASE s[i] = "l" -> "L"
          [] s[i] = "g" -> "G"
          [] s[i] = "m" -> "M"
          [] OTHER -> s[i]]

\* fixFormat: "[" + upper(name) + "] " + format, newline-terminated.
fixFormat(name, format) ==
    IF format[Len(format)] = "\n"
    THEN <<"[">> \o ToUpper(name) \o <<"]", " ">> \o format
    ELSE <<"[">> \o ToUpper(name) \o <<"]", " ">> \o format \o <<"\n">>

\* log.Logger.Output: the header, the text, and a newline if it lacks one.
LoggerOutput(s) ==
    IF Len(s) > 0 /\ s[Len(s)] = "\n"
    THEN <<"hdr">> \o s
    ELSE <<"hdr">> \o s \o <<"\n">>

\* A line as it is handed to the logger's writer; src tells whose it is.
Line(src, format) == [src |-> src, text |-> LoggerOutput(fixFormat(LogName, format))]

InitLine == Line(<<"init", 0, 0>>, <<"=", " ", "L", "o", "g", " ", "i", "n", "i", "t", " ", "=">>)
CloseLine(k) == Line(<<"close", k, 0>>, <<"=", " ", "C", "l", "o", "s", "e", " ", "l", "o", "g", " ", "=">>)
ShutdownLine == Line(<<"async", 0, 0>>, <<"A", "s", "y", "n", "c", " ", "l", "o", "g", " ", "s", "h", "u", "t", "d", "o", "w", "n">>)
PrintSrc(c, k) == <<"print", c, k>>
\* The "==== Log init ====" of the logger that Rotate creates.
NewInitLine == [InitLine EXCEPT !.src = <<"init", 1, 0>>]
NoLine == [src |-> <<"none", 0, 0>>, text |-> <<>>]

\* What a slot of b.buf holds between the reslice that exposes it and the
\* copy that fills it: zeroes, or the bytes of an older line.
StaleLine == [src |-> <<"stale", 0, 0>>, text |-> <<>>]

\* ------------------------------------------------------------ bytes.Buffer
\* Write, tryGrowByReslice: b.buf = b.buf[:m+n], with m = len(b.buf) as read
\* before; view is b.buf[:m], which no other writer has changed meanwhile
\* (the logger's mutex), and which a Reset in between has not erased.
BufReslice(view) == view \o <<StaleLine>>

\* Write, copy(b.buf[m:], p): slicing beyond len(b.buf) panics.
BufCopyPanics(b, m) == m > Len(b)

\* Write, copy(b.buf[m:], p): copies nothing when b.buf[m:] is empty.
BufCopy(b, m, line) == IF m < Len(b) THEN [b EXCEPT ![m + 1] = line] ELSE b

\* BufReset with the Reset left out: WriteTo leaves the buffer as it is.
BufReset_Keeps(b) == b

\* WriteTo, Reset: b.buf = b.buf[:0].
BufReset(b) == <<>>

\* ------------------------------------------------------------------- state
\* The process runs, and New has returned a logger.
Alive == aborted = "no" /\ newLog = "log"
IsBuffered == logType = BufferedFile

\* IsDisabled with the enabled check left out.
IsDisabled_Never(e) == FALSE

\* atomic.LoadInt32(&this.enabled) < 1
IsDisabled(e) == e < 1

\* What the file system may answer New: both steps succeed, os.MkdirAll
\* fails, or os.OpenFile fails.
SetupOutcomes == {"ok", "mkdir", "open"}

\* mkdir: os.MkdirAll failed, and mkdir panics.
NewPanics(s) == s = "mkdir"

\* New: os.OpenFile failed, and New returns nil.
NewReturnsNil(s) == s = "open"

\* New has built a logger: neither panicked nor returned nil.
NewBuilt(s) == ~NewPanics(s) /\ ~NewReturnsNil(s)

\* The state New leaves.  With the directory and the file there: the file
\* opened, the logger enabled, the default interval set, asyncFlush started
\* (it has sampled the interval and waits in its select), and "==== Log init
\* ====" printed.  With a failed mkdir the process has panicked; with a
\* failed open New has returned nil before anything was built.
Init ==
    /\ logType \in {BufferedFile, DirectFile}
    /\ setup \in SetupOutcomes
    /\ newLog = IF NewBuilt(setup) THEN "log" ELSE "nil"
    /\ enabled = IF NewBuilt(setup) THEN 1 ELSE 0
    /\ flushSec = DefaultFlushIntervalSec
    /\ buffer = IF NewBuilt(setup) /\ logType = BufferedFile THEN <<InitLine>> ELSE <<>>
    /\ file = IF NewBuilt(setup) /\ logType = DirectFile THEN <<InitLine>> ELSE <<>>
    /\ fileOpen = NewBuilt(setup)
    /\ lockW = 0
    /\ readers = {}
    /\ logMu = FALSE
    /\ pc = [c \in Callers |-> "idle"]
    /\ calls = [c \in Callers |-> 0]
    /\ pline = [c \in Callers |-> NoLine]
    /\ pview = [c \in Callers |-> <<>>]
    /\ cpc = [k \in Closers |-> "idle"]
    /\ cview = [k \in Closers |-> <<>>]
    /\ bpc = IF NewBuilt(setup) /\ logType = BufferedFile THEN "select" ELSE "none"
    /\ bview = <<>>
    /\ sampled = DefaultFlushIntervalSec
    /\ elapsed = 0
    /\ aborted = IF NewPanics(setup) THEN "setup" ELSE "no"
    /\ ioFailed = FALSE
    /\ drained = FALSE
    /\ handoffs = <<>>
    /\ accepted = {}
    /\ dropped = {}
    /\ afterClose = {}
    /\ inWindow = FALSE
    /\ calledDisabled = {}
    /\ rotator = 0
    /\ rpc = "idle"
    /\ archived = <<>>
    /\ newBuffer = <<>>
    /\ newFile = <<>>
    /\ newFlushSec = 0

\* ------------------------------------------------- Print (both loggers)
\* The Print calls made so far, over all callers.
RECURSIVE SumCalls(_, _)
SumCalls(f, n) == IF n = 0 THEN 0 ELSE f[n] + SumCalls(f, n - 1)

\* Print up to its branch: this.lock.RLock() (it blocks while a writer holds
\* or awaits the lock), the enabled check, and for an enabled logger
\* fixFormat.  A blocked call has no effect until RLock returns, so the call
\* and the lock are one step; a call that finds the logger disabled returns
\* (the deferred RUnlock) in the same step.  The callers are numbered in
\* the order of their first calls.
PrintEnter(c) ==
    /\ Alive
    /\ pc[c] = "idle"
    /\ IF c = 1 THEN TRUE ELSE calls[c - 1] > 0
    /\ SumCalls(calls, NumCallers) < MaxPrints
    /\ lockW = 0
    /\ calls' = [calls EXCEPT ![c] = @ + 1]
    /\ calledDisabled' = IF inWindow
                         THEN calledDisabled \cup {PrintSrc(c, calls[c] + 1)}
                         ELSE calledDisabled
    /\ afterClose' = IF fileOpen
                     THEN afterClose
                     ELSE afterClose \cup {PrintSrc(c, calls[c] + 1)}
    /\ IF IsDisabled(enabled)
       THEN /\ dropped' = dropped \cup {PrintSrc(c, calls[c] + 1)}
            /\ UNCHANGED <<pc, pline, accepted, readers>>
       ELSE /\ \E f \in Formats :
                  pline' = [pline EXCEPT ![c] = Line(PrintSrc(c, calls[c] + 1), f)]
            /\ pc' = [pc EXCEPT ![c] = IF IsBuffered THEN "grow" ELSE "write"]
            /\ readers' = readers \cup {c}
            /\ accepted' = accepted \cup {PrintSrc(c, calls[c] + 1)}
            /\ UNCHANGED dropped
    /\ UNCHANGED <<ctorVars, drained, rotVars, elapsed, ioFailed, flagVars, buffer, diskVars, lockW, logMu, pview,
                   closerVars, bgVars, aborted, handoffs, inWindow>>

\* BufferedLog.print, logger.Print: take the logger's mutex; Buffer.Write
\* reads b.buf.
PrintGrow(c) ==
    /\ Alive
    /\ pc[c] = "grow"
    /\ ~logMu
    /\ logMu' = TRUE
    /\ pview' = [pview EXCEPT ![c] = buffer]
    /\ pc' = [pc EXCEPT ![c] = "reslice"]
    /\ drained' = FALSE
    /\ UNCHANGED <<ctorVars, rotVars, elapsed, ioFailed, flagVars, buffer, diskVars, lockW, readers, calls,
                   pline, closerVars, bgVars, aborted, handoffs, histVars>>

\* Buffer.Write reslices b.buf to make room.
PrintReslice(c) ==
    /\ Alive
    /\ pc[c] = "reslice"
    /\ buffer' = BufReslice(pview[c])
    /\ pc' = [pc EXCEPT ![c] = "copy"]
    /\ drained' = FALSE
    /\ UNCHANGED <<ctorVars, rotVars, elapsed, ioFailed, flagVars, diskVars, lockVars, calls, pline, pview,
                   closerVars, bgVars, aborted, handoffs, histVars>>

\* Buffer.Write copies the line in; the logger's mutex is released, and the
\* deferred RUnlock: Print returns.
PrintCopy(c) ==
    /\ Alive
    /\ pc[c] = "copy"
    /\ IF BufCopyPanics(buffer, Len(pview[c]))
       THEN /\ aborted' = "race"
            /\ UNCHANGED <<buffer, logMu, readers, pc, pline, pview>>
       ELSE /\ buffer' = BufCopy(buffer, Len(pview[c]), pline[c])
            /\ logMu' = FALSE
            /\ readers' = readers \ {c}
            /\ pc' = [pc EXCEPT ![c] = "idle"]
            /\ pline' = [pline EXCEPT ![c] = NoLine]
            /\ pview' = [pview EXCEPT ![c] = <<>>]
            /\ UNCHANGED aborted
    /\ drained' = FALSE
    /\ UNCHANGED <<ctorVars, rotVars, elapsed, ioFailed, flagVars, diskVars, lockW, calls, closerVars,
                   bgVars, handoffs, histVars>>

\* Logger.Print's write, whose error Logger.Print drops: the line is in
\* the file if the write succeeded.  A write to a file that Close has
\* released fails too, but is no failure of a running logger.
DirectOutput(line, ok) ==
    /\ file' = IF ok /\ fileOpen THEN Append(file, line) ELSE file
    /\ ioFailed' = (ioFailed \/ (fileOpen /\ ~ok))

\* DirectLog.print, logger.Print: one write to the file under the logger's
\* mutex, and the deferred RUnlock: Print returns.
DirectWrite(c) ==
    /\ Alive
    /\ pc[c] = "write"
    /\ ~logMu
    /\ \E ok \in BOOLEAN : DirectOutput(pline[c], ok)
    /\ readers' = readers \ {c}
    /\ pc' = [pc EXCEPT ![c] = "idle"]
    /\ pline' = [pline EXCEPT ![c] = NoLine]
    /\ UNCHANGED <<ctorVars, drained, rotVars, elapsed, flagVars, buffer, fileOpen, lockW, logMu, calls,
                   pview, closerVars, bgVars, aborted, handoffs, histVars>>

\* ------------------------------------------- Enable, Disable, interval
Enable ==
    /\ Alive
    /\ enabled' = 1
    /\ inWindow' = FALSE
    /\ UNCHANGED <<ctorVars, drained, rotVars, elapsed, ioFailed, flushSec, buffer, diskVars, lockVars, callerVars,
                   closerVars, bgVars, aborted, handoffs, accepted, dropped,
                   afterClose, calledDisabled>>

Disable ==
    /\ Alive
    /\ enabled' = 0
    /\ inWindow' = TRUE
    /\ UNCHANGED <<ctorVars, drained, rotVars, elapsed, ioFailed, flushSec, buffer, diskVars, lockVars, callerVars,
                   closerVars, bgVars, aborted, handoffs, accepted, dropped,
                   afterClose, calledDisabled>>

SetFlushIntervalSec(interval) ==
    /\ Alive
    /\ IsBuffered
    /\ flushSec' = interval
    /\ UNCHANGED <<ctorVars, drained, rotVars, elapsed, ioFailed, enabled, buffer, diskVars, lockVars, callerVars,
                   closerVars, bgVars, aborted, handoffs, histVars>>

\* ------------------------------------------------------------------ Close
\* A caller calls Close (the closers are numbered in the order they call).
\* this.lock.Lock(), first half: the writer announces itself; from here new
\* RLock calls block.  A second writer blocks until the first unlocks; a
\* blocked call has no effect, so the call and the announcement are one step.
CloseLock(k) ==
    /\ Alive
    /\ cpc[k] = "idle"
    /\ IF k = 1 THEN TRUE ELSE cpc[k - 1] # "idle"
    /\ lockW = 0
    /\ lockW' = k
    /\ cpc' = [cpc EXCEPT ![k] = "wait"]
    /\ UNCHANGED <<ctorVars, drained, rotVars, elapsed, ioFailed, flagVars, buffer, diskVars, readers, logMu,
                   callerVars, cview, bgVars, aborted, handoffs, histVars>>

\* this.lock.Lock(), second half: the readers have left; this.enabled = 0.
CloseLocked(k) ==
    /\ Alive
    /\ cpc[k] = "wait"
    /\ readers = {}
    /\ enabled' = 0
    /\ cpc' = [cpc EXCEPT ![k] = IF IsBuffered THEN "grow" ELSE "write"]
    /\ UNCHANGED <<ctorVars, drained, rotVars, elapsed, ioFailed, flushSec, buffer, diskVars, lockVars, callerVars,
                   cview, bgVars, aborted, handoffs, histVars>>

\* this.print("==== Close log ===="): Buffer.Write reads b.buf.
CloseGrow(k) ==
    /\ Alive
    /\ cpc[k] = "grow"
    /\ ~logMu
    /\ logMu' = TRUE
    /\ cview' = [cview EXCEPT ![k] = buffer]
    /\ cpc' = [cpc EXCEPT ![k] = "reslice"]
    /\ drained' = FALSE
    /\ UNCHANGED <<ctorVars, rotVars, elapsed, ioFailed, flagVars, buffer, diskVars, lockW, readers,
                   callerVars, bgVars, aborted, handoffs, histVars>>

CloseReslice(k) ==
    /\ Alive
    /\ cpc[k] = "reslice"
    /\ buffer' = BufReslice(cview[k])
    /\ cpc' = [cpc EXCEPT ![k] = "copy"]
    /\ drained' = FALSE
    /\ UNCHANGED <<ctorVars, rotVars, elapsed, ioFailed, flagVars, diskVars, lockVars, callerVars, cview,
                   bgVars, aborted, handoffs, histVars>>

CloseCopy(k) ==
    /\ Alive
    /\ cpc[k] = "copy"
    /\ IF BufCopyPanics(buffer, Len(cview[k]))
       THEN /\ aborted' = "race"
            /\ UNCHANGED <<buffer, logMu, cpc, cview>>
       ELSE /\ buffer' = BufCopy(buffer, Len(cview[k]), CloseLine(k))
            /\ logMu' = FALSE
            /\ cpc' = [cpc EXCEPT ![k] = "send"]
            /\ cview' = [cview EXCEPT ![k] = <<>>]
            /\ UNCHANGED aborted
    /\ drained' = FALSE
    /\ UNCHANGED <<ctorVars, rotVars, elapsed, ioFailed, flagVars, diskVars, lockW, readers, callerVars,
                   bgVars, handoffs, histVars>>

\* flushLogs, io.Copy: Buffer.WriteTo writes b.buf[b.off:] to the file; a
\* failed write panics.
FlushWrite(ok) ==
    IF ok /\ fileOpen
    THEN /\ file' = file \o buffer
         /\ UNCHANGED <<aborted, ioFailed>>
    ELSE /\ aborted' = "io"
         /\ ioFailed' = TRUE
         /\ UNCHANGED file

\* flushLogs: Buffer.WriteTo resets the buffer, then file.Sync(); a failed
\* sync panics.
FlushReset(ok) ==
    /\ buffer' = BufReset(buffer)
    /\ aborted' = IF ok THEN aborted ELSE "io"
    /\ ioFailed' = (ioFailed \/ ~ok)
    /\ drained' = ok

\* Close's final flushLogs, first half.
CloseFlushWrite(k) ==
    /\ Alive
    /\ cpc[k] = "flush"
    /\ \E ok \in BOOLEAN :
          /\ FlushWrite(ok)
          /\ cpc' = [cpc EXCEPT ![k] = IF ok /\ fileOpen THEN "reset" ELSE @]
    /\ UNCHANGED <<ctorVars, drained, rotVars, elapsed, flagVars, buffer, fileOpen, lockVars, callerVars,
                   cview, bgVars, handoffs, histVars>>

\* Close's final flushLogs, second half.
CloseFlushReset(k) ==
    /\ Alive
    /\ cpc[k] = "reset"
    /\ \E ok \in BOOLEAN :
          /\ FlushReset(ok)
          /\ cpc' = [cpc EXCEPT ![k] = IF ok THEN "fileClose" ELSE @]
    /\ UNCHANGED <<ctorVars, rotVars, elapsed, flagVars, diskVars, lockVars, callerVars, cview,
                   bgVars, handoffs, histVars>>

\* CloseReturn with this.file.Close() left out.
CloseReturn_KeepsFile(k) ==
    /\ Alive
    /\ cpc[k] = "fileClose"
    /\ lockW' = 0
    /\ cpc' = [cpc EXCEPT ![k] = "done"]
    /\ UNCHANGED <<ctorVars, drained, rotVars, elapsed, ioFailed, flagVars, buffer, diskVars, readers, logMu,
                   callerVars, cview, bgVars, aborted, handoffs, histVars>>

\* this.file.Close() and the deferred Unlock: Close returns.
CloseReturn(k) ==
    /\ Alive
    /\ cpc[k] = "fileClose"
    /\ fileOpen' = FALSE
    /\ lockW' = 0
    /\ cpc' = [cpc EXCEPT ![k] = "done"]
    /\ UNCHANGED <<ctorVars, drained, rotVars, elapsed, ioFailed, flagVars, buffer, file, readers, logMu,
                   callerVars, cview, bgVars, aborted, handoffs, histVars>>

\* DirectLog.Close: this.print("==== Close log ===="), a write whose error
\* Logger.Print drops.
DirectCloseWrite(k) ==
    /\ Alive
    /\ cpc[k] = "write"
    /\ ~logMu
    /\ \E ok \in BOOLEAN : DirectOutput(CloseLine(k), ok)
    /\ cpc' = [cpc EXCEPT ![k] = "sync"]
    /\ UNCHANGED <<ctorVars, drained, rotVars, elapsed, flagVars, buffer, fileOpen, lockVars, callerVars,
                   cview, bgVars, aborted, handoffs, histVars>>

\* DirectLog.Close: file.Sync() and file.Close(), errors unchecked, and the
\* deferred Unlock.
DirectCloseReturn(k) ==
    /\ Alive
    /\ cpc[k] = "sync"
    /\ \E ok \in BOOLEAN : ioFailed' = (ioFailed \/ (fileOpen /\ ~ok))
    /\ fileOpen' = FALSE
    /\ lockW' = 0
    /\ cpc' = [cpc EXCEPT ![k] = "done"]
    /\ UNCHANGED <<ctorVars, drained, rotVars, elapsed, flagVars, buffer, file, readers, logMu,
                   callerVars, cview, bgVars, aborted, handoffs, histVars>>

\* ------------------------------------------------------------- asyncFlush
\* case <-time.After(...): the timer has fired; flushLogs, first half.  No
\* lock is held.
BgFlushWrite ==
    /\ Alive
    /\ bpc = "select"
    /\ \E ok \in BOOLEAN :
          /\ FlushWrite(ok)
          /\ bpc' = IF ok /\ fileOpen THEN "reset" ELSE bpc
    /\ UNCHANGED <<ctorVars, drained, rotVars, elapsed, flagVars, buffer, fileOpen, lockVars, callerVars,
                   closerVars, bview, sampled, handoffs, histVars>>

\* The timer's flushLogs, second half; then the top of the loop:
\* flushSec := atomic.LoadInt32(&this.flushSec), time.After is armed anew,
\* and the goroutine waits in the select.
BgFlushReset ==
    /\ Alive
    /\ bpc = "reset"
    /\ \E ok \in BOOLEAN :
          /\ FlushReset(ok)
          /\ bpc' = IF ok THEN "select" ELSE bpc
          /\ sampled' = IF ok THEN flushSec ELSE sampled
    /\ elapsed' = 0
    /\ UNCHANGED <<ctorVars, rotVars, flagVars, diskVars, lockVars, callerVars,
                   closerVars, bview, handoffs, histVars>>

\* BgRecvShutdown with Close not waiting for the acknowledgment (no
\* <-this.chClose after the send).
BgRecvShutdown_NoAckWait(k) ==
    /\ Alive
    /\ bpc = "select"
    /\ cpc[k] = "send"
    /\ cpc' = [cpc EXCEPT ![k] = "flush"]
    /\ bpc' = "grow"
    /\ handoffs' = Append(handoffs, "shutdown")
    /\ elapsed' = 0
    /\ UNCHANGED <<ctorVars, drained, rotVars, ioFailed, flagVars, buffer, diskVars, lockVars, callerVars,
                   cview, bview, sampled, aborted, histVars>>

\* case <-this.chClose: the rendezvous with Close's send; run = false.
BgRecvShutdown(k) ==
    /\ Alive
    /\ bpc = "select"
    /\ cpc[k] = "send"
    /\ cpc' = [cpc EXCEPT ![k] = "recv"]
    /\ bpc' = "grow"
    /\ handoffs' = Append(handoffs, "shutdown")
    /\ elapsed' = 0
    /\ UNCHANGED <<ctorVars, drained, rotVars, ioFailed, flagVars, buffer, diskVars, lockVars, callerVars,
                   cview, bview, sampled, aborted, histVars>>

\* this.print("Async log shutdown"): Buffer.Write reads b.buf.
BgGrow ==
    /\ Alive
    /\ bpc = "grow"
    /\ ~logMu
    /\ logMu' = TRUE
    /\ bview' = buffer
    /\ bpc' = "reslice"
    /\ drained' = FALSE
    /\ UNCHANGED <<ctorVars, rotVars, elapsed, ioFailed, flagVars, buffer, diskVars, lockW, readers,
                   callerVars, closerVars, sampled, aborted, handoffs,
                   histVars>>

BgReslice ==
    /\ Alive
    /\ bpc = "reslice"
    /\ buffer' = BufReslice(bview)
    /\ bpc' = "copy"
    /\ drained' = FALSE
    /\ UNCHANGED <<ctorVars, rotVars, elapsed, ioFailed, flagVars, diskVars, lockVars, callerVars,
                   closerVars, bview, sampled, aborted, handoffs, histVars>>

\* BgCopy with run = false left out: the loop goes on to another select.
BgCopy_KeepsRunning ==
    /\ Alive
    /\ bpc = "copy"
    /\ ~BufCopyPanics(buffer, Len(bview))
    /\ buffer' = BufCopy(buffer, Len(bview), ShutdownLine)
    /\ logMu' = FALSE
    /\ bpc' = "select"
    /\ bview' = <<>>
    /\ drained' = FALSE
    /\ UNCHANGED <<ctorVars, rotVars, elapsed, ioFailed, flagVars, diskVars, lockW,
                   readers, callerVars, closerVars, sampled, aborted,
                   handoffs, histVars>>

\* case <-this.chClose, after run = false: this.print("Async log
\* shutdown") copies its line in, and continue leaves the loop.
BgCopy ==
    /\ Alive
    /\ bpc = "copy"
    /\ IF BufCopyPanics(buffer, Len(bview))
       THEN /\ aborted' = "race"
            /\ UNCHANGED <<buffer, logMu, bpc, bview>>
       ELSE /\ buffer' = BufCopy(buffer, Len(bview), ShutdownLine)
            /\ logMu' = FALSE
            /\ bpc' = "ack"
            /\ bview' = <<>>
            /\ UNCHANGED aborted
    /\ drained' = FALSE
    /\ UNCHANGED <<ctorVars, rotVars, elapsed, ioFailed, flagVars, diskVars, lockW, readers, callerVars,
                   closerVars, sampled, handoffs, histVars>>

\* BgAck with the goroutine going back to its select after the send.
BgAck_KeepsListening(k) ==
    /\ Alive
    /\ bpc = "ack"
    /\ cpc[k] = "recv"
    /\ cpc' = [cpc EXCEPT ![k] = "flush"]
    /\ bpc' = "select"
    /\ handoffs' = Append(handoffs, "ack")
    /\ UNCHANGED <<ctorVars, drained, rotVars, elapsed, ioFailed, flagVars, buffer, diskVars, lockVars, callerVars,
                   cview, bview, sampled, aborted, histVars>>

\* The loop has ended: this.chClose <- nil, the rendezvous with Close's
\* receive; the goroutine ends.
BgAck(k) ==
    /\ Alive
    /\ bpc = "ack"
    /\ cpc[k] = "recv"
    /\ cpc' = [cpc EXCEPT ![k] = "flush"]
    /\ bpc' = "done"
    /\ handoffs' = Append(handoffs, "ack")
    /\ UNCHANGED <<ctorVars, drained, rotVars, elapsed, ioFailed, flagVars, buffer, diskVars, lockVars, callerVars,
                   cview, bview, sampled, aborted, histVars>>

\* ----------------------------------------------------------------- Rotate
\* Rotate(log) up to the lock of its log.Close(): as CloseLock.  Rotate is
\* called at most once on the handle.
RotateCall(k) ==
    /\ Alive
    /\ rotator = 0
    /\ cpc[k] = "idle"
    /\ IF k = 1 THEN TRUE ELSE cpc[k - 1] # "idle"
    /\ lockW = 0
    /\ lockW' = k
    /\ cpc' = [cpc EXCEPT ![k] = "wait"]
    /\ rotator' = k
    /\ rpc' = "close"
    /\ UNCHANGED <<ctorVars, drained, elapsed, ioFailed, flagVars, buffer, diskVars, readers,
                   logMu, callerVars, cview, bgVars, aborted, handoffs,
                   histVars, archived, newBuffer, newFile, newFlushSec>>

\* log.Close() has returned: log.BaseDir() and log.Name() (each takes the
\* read lock, and blocks while a writer holds or awaits the lock),
\* mkdir(old), which panics when it fails, and os.Rename, whose failure
\* panics.  The open file descriptor of the old logger follows the file to
\* its new name.
RotateRename ==
    /\ Alive
    /\ rpc = "close"
    /\ cpc[rotator] = "done"
    /\ lockW = 0
    /\ \E ok \in BOOLEAN :
          IF ok
          THEN /\ archived' = file
               /\ rpc' = "new"
               /\ UNCHANGED aborted
          ELSE /\ aborted' = "rotate"
               /\ UNCHANGED <<archived, rpc>>
    /\ UNCHANGED <<ctorVars, drained, elapsed, ioFailed, flagVars, buffer, diskVars, lockVars,
                   callerVars, closerVars, bgVars, handoffs, histVars,
                   rotator, newBuffer, newFile, newFlushSec>>

\* New(log.Name(), log.BaseDir(), kind) for the same kind of logger, at
\* the original path: mkdir panics when it fails; when os.OpenFile fails
\* New returns nil, which the type assertion newLog.(*BufferedLog) turns
\* into a panic.  Else a new file, a buffered logger's asyncFlush started,
\* "==== Log init ====" printed (to the buffer, or to the file with a write
\* whose error is dropped), and SetFlushIntervalSec(bLog.FlushIntervalSec()).
RotateNew ==
    /\ Alive
    /\ rpc = "new"
    /\ lockW = 0
    /\ \E s \in SetupOutcomes, ok \in BOOLEAN :
          /\ aborted' = IF NewPanics(s) THEN "setup"
                         ELSE IF NewReturnsNil(s) /\ IsBuffered THEN "nil"
                         ELSE aborted
          /\ rpc' = IF NewPanics(s) \/ (NewReturnsNil(s) /\ IsBuffered)
                     THEN rpc
                     ELSE "done"
          /\ newBuffer' = IF NewBuilt(s) /\ IsBuffered THEN <<NewInitLine>> ELSE newBuffer
          /\ newFile' = IF NewBuilt(s) /\ ~IsBuffered /\ ok THEN <<NewInitLine>> ELSE newFile
          /\ newFlushSec' = IF NewBuilt(s) /\ IsBuffered THEN flushSec ELSE newFlushSec
    /\ UNCHANGED <<ctorVars, drained, elapsed, ioFailed, flagVars, buffer, diskVars, lockVars,
                   callerVars, closerVars, bgVars, handoffs, histVars,
                   rotator, archived>>

\* The asyncFlush of the logger Rotate created: its timer fires, flushLogs.
\* No call on the new logger is under way, so nothing races with it.
NewFlush ==
    /\ Alive
    /\ rpc = "done"
    /\ newBuffer # <<>>
    /\ \E ok \in BOOLEAN :
          IF ok
          THEN /\ newFile' = newFile \o newBuffer
               /\ newBuffer' = BufReset(newBuffer)
               /\ UNCHANGED <<aborted, ioFailed>>
          ELSE /\ aborted' = "io"
               /\ ioFailed' = TRUE
               /\ UNCHANGED <<newFile, newBuffer>>
    /\ UNCHANGED <<ctorVars, drained, elapsed, flagVars, buffer, diskVars, lockVars,
                   callerVars, closerVars, bgVars, handoffs, histVars,
                   rotator, rpc, archived, newFlushSec>>

\* ---------------------------------------------------------- specification
\* Every step but the firing of asyncFlush's timer.
Operations ==
    \/ \E c \in Callers : PrintEnter(c)
    \/ \E c \in Callers : PrintGrow(c)
    \/ \E c \in Callers : PrintReslice(c)
    \/ \E c \in Callers : PrintCopy(c)
    \/ \E c \in Callers : DirectWrite(c)
    \/ Enable
    \/ Disable
    \/ \E i \in Intervals : SetFlushIntervalSec(i)
    \/ \E k \in Closers : CloseLock(k)
    \/ \E k \in Closers : CloseLocked(k)
    \/ \E k \in Closers : CloseGrow(k)
    \/ \E k \in Closers : CloseReslice(k)
    \/ \E k \in Closers : CloseCopy(k)
    \/ \E k \in Closers : CloseFlushWrite(k)
    \/ \E k \in Closers : CloseFlushReset(k)
    \/ \E k \in Closers : CloseReturn(k)
    \/ \E k \in Closers : DirectCloseWrite(k)
    \/ \E k \in Closers : DirectCloseReturn(k)
    \/ BgFlushReset
    \/ \E k \in Closers : BgRecvShutdown(k)
    \/ BgGrow
    \/ BgReslice
    \/ BgCopy
    \/ \E k \in Closers : BgAck(k)

\* Time not counted: an armed timer may fire at any later step.
Next ==
    \/ Operations
    \/ BgFlushWrite

Spec == Init /\ [][Next]_vars

\* Scheduling: every goroutine that can take a step eventually takes one,
\* and an armed timer eventually fires.  Callers are free never to call.
\* A select with both cases ready picks one at random, and a pending send
\* is ready before a timer armed later has run out, so a shutdown signal
\* that stays offered is eventually received (strong fairness).
Fairness ==
    /\ \A c \in Callers :
          WF_vars(PrintGrow(c) \/ PrintReslice(c) \/ PrintCopy(c) \/ DirectWrite(c))
    /\ \A k \in Closers :
          WF_vars(\/ CloseLocked(k) \/ CloseGrow(k) \/ CloseReslice(k)
                  \/ CloseCopy(k) \/ CloseFlushWrite(k) \/ CloseFlushReset(k)
                  \/ CloseReturn(k) \/ DirectCloseWrite(k) \/ DirectCloseReturn(k))
    /\ WF_vars(BgFlushWrite)
    /\ WF_vars(BgFlushReset \/ BgGrow \/ BgReslice \/ BgCopy)
    /\ WF_vars(\E k \in Closers : BgAck(k))
    /\ SF_vars(\E k \in Closers : BgRecvShutdown(k))

FairSpec == Spec /\ Fairness

\* ------------------------------------------------------------------- time
\* A second passes while asyncFlush waits in its select; the timer fires
\* when the time it was armed with is over.
Tick ==
    /\ Alive
    /\ bpc = "select"
    /\ elapsed < sampled
    /\ elapsed' = elapsed + 1
    /\ UNCHANGED <<ctorVars, drained, rotVars, ioFailed, flagVars, buffer, diskVars,
                   lockVars, callerVars, closerVars, bpc, bview, sampled,
                   aborted, handoffs, histVars>>

\* TimerFired with the wait measured against this.flushSec as it is now,
\* not against the value the wait began with.
TimerFired_LiveInterval == elapsed >= flushSec

\* <-time.After(time.Duration(flushSec) * time.Second), flushSec being the
\* local variable: the channel delivers when that time has passed.
TimerFired == elapsed = sampled

\* The operations on one handle with the seconds of asyncFlush's wait
\* counted: the timer's flush begins when the timer has fired.
TimedNext ==
    \/ Operations
    \/ Tick
    \/ TimerFired /\ BgFlushWrite

TimedSpec == Init /\ [][TimedNext]_vars

\* The operations on one handle, and Rotate of the factory on it.
RotateNext ==
    \/ Next
    \/ \E k \in Closers : RotateCall(k)
    \/ RotateRename
    \/ RotateNew
    \/ NewFlush

RotateSpec == Init /\ [][RotateNext]_vars

\* -------------------------------------------------------------- vocabulary
BufferedClosed == IsBuffered /\ \E k \in Closers : cpc[k] = "done"
Srcs(seq) == {seq[i].src : i \in 1..Len(seq)}
Count(seq, src) == Cardinality({i \in 1..Len(seq) : seq[i].src = src})
IsPrintSrc(src) == src[1] = "print"
PrintSrcs == {PrintSrc(c, n) : c \in Callers, n \in 1..MaxPrints}

\* Some goroutine is inside Buffer.Write: it has read b.buf and has not
\* finished its copy.
Appending ==
    \/ \E c \in Callers : pc[c] \in {"reslice", "copy"}
    \/ \E k \in Closers : cpc[k] \in {"reslice", "copy"}
    \/ bpc \in {"reslice", "copy"}

\* Some goroutine is inside Buffer.WriteTo: it has written the buffer out
\* and has not reset it yet.
Draining == bpc = "reset" \/ \E k \in Closers : cpc[k] = "reset"

\* C1: once Close of a buffered logger has returned, every Print call that
\* found the logger enabled before that Close has its line in the file
\* exactly once, and a caller's lines stand in the order of its calls.
C1_RoundTrip ==
    BufferedClosed =>
        /\ \A src \in accepted \ afterClose : Count(file, src) = 1
        /\ \A i, j \in 1..Len(file) :
              (/\ i < j
               /\ IsPrintSrc(file[i].src)
               /\ IsPrintSrc(file[j].src)
               /\ file[i].src[2] = file[j].src[2]) => file[i].src[3] < file[j].src[3]

\* C2: once Close of a buffered logger has returned, its closing marker is
\* in the file.
C2_MarkerOnDisk ==
    \A k \in Closers :
        (IsBuffered /\ cpc[k] = "done") => CloseLine(k).src \in Srcs(file)

\* C3: Close of a buffered logger has returned only if the flush goroutine
\* has ended, after the shutdown signal and its acknowledgment were handed
\* over.
C3_ShutdownCompletion ==
    \A k \in Closers :
        (IsBuffered /\ cpc[k] = "done") =>
            (bpc = "done" /\ handoffs = <<"shutdown", "ack">>)

\* C3: a state where Close of a buffered logger has returned.
C3_Witness == IsBuffered /\ cpc[1] = "done" /\ bpc = "done"

\* C4: no flush drains the buffer while an append to it is in progress.
C4_NoOverlap == ~(Draining /\ Appending)

\* C5: a Print call made after Disable returned and before any later Enable
\* leaves no line in the buffer or the file, and none about to be written.
C5_DisabledDrop ==
    \A src \in calledDisabled :
        /\ src \notin Srcs(buffer)
        /\ src \notin Srcs(file)
        /\ \A c \in Callers : pline[c].src # src

\* C5: a Print call was made while disabled, after another one had been
\* accepted and had reached the file.
C5_Witness ==
    /\ calledDisabled # {}
    /\ \E src \in accepted : src \in Srcs(file)

\* C6: once Close of a buffered logger has returned, every Print call that
\* has returned either found the logger disabled and left no line, or has
\* its line in the file.
C6_EitherOr ==
    BufferedClosed =>
        \A c \in Callers : \A n \in 1..calls[c] :
            (n < calls[c] \/ pc[c] = "idle") =>
                \/ /\ PrintSrc(c, n) \in dropped
                   /\ PrintSrc(c, n) \notin Srcs(buffer) \cup Srcs(file)
                \/ /\ PrintSrc(c, n) \in accepted
                   /\ PrintSrc(c, n) \in Srcs(file)

\* C8: in the file of a buffered logger, no line of a caller's later Print
\* call stands before a line of an earlier call of the same caller.
C8_Ordering ==
    IsBuffered =>
        \A i, j \in 1..Len(file) :
            (/\ i < j
             /\ IsPrintSrc(file[i].src)
             /\ IsPrintSrc(file[j].src)
             /\ file[i].src[2] = file[j].src[2]) => file[i].src[3] <= file[j].src[3]

\* C7: under fair scheduling, the first Close call on a buffered logger
\* eventually returns, unless a write or sync to the file fails.
C7_CloseTerminates ==
    (IsBuffered /\ cpc[1] # "idle") ~> (cpc[1] = "done" \/ aborted = "io")

\* C9: under fair scheduling, a line in the buffer of a buffered logger is
\* eventually in the file, unless Close is called or a write or sync fails.
C9_EventuallyFlushed ==
    \A src \in PrintSrcs :
        (IsBuffered /\ src \in Srcs(buffer)) ~>
            (src \in Srcs(file) \/ cpc[1] # "idle" \/ aborted = "io")

\* Running (0): the file is open and no Close is under way.  Closing (1): a
\* Close holds or awaits the lock.  Closed (2): the file is released.
LifeRank == IF ~fileOpen THEN 2 ELSE IF lockW # 0 THEN 1 ELSE 0

\* C10: the lifecycle of a buffered logger only moves forward, and only in
\* steps of Close; the flush goroutine, once ended, stays ended, and the
\* file, once released, stays released.
C10_OneWay ==
    [][IsBuffered =>
          /\ LifeRank' >= LifeRank
          /\ (LifeRank' # LifeRank => cpc' # cpc)
          /\ (bpc = "done" => bpc' = "done")
          /\ (~fileOpen => ~fileOpen')]_vars

\* C10: a closed buffered logger on which Enable was called afterwards.
C10_Witness == IsBuffered /\ ~fileOpen /\ bpc = "done" /\ enabled = 1

\* C11: when New cannot create the directory or cannot open the file, it
\* returns nil, the process has not panicked, and no asyncFlush goroutine
\* was started.
C11_SetupFailureReported ==
    setup # "ok" => (newLog = "nil" /\ aborted = "no" /\ bpc = "none")

\* C12: whenever a write or a sync on the open file of a logger has failed,
\* the process has panicked with that failure.
C12_DurabilityFatal == ioFailed => aborted = "io"

\* os.Rename has moved the file of the old logger to old/.
Renamed == rpc \in {"new", "done"}

\* C13: when Rotate, called on a logger that was not closed before, has
\* renamed the file, the close sequence of the old logger is over (its goroutine ended, its file released); the archived
\* file holds every line accepted before the rotation and the close marker,
\* each once; the old logger has written nothing since; and the file at
\* the original path holds nothing but the new logger's init marker.
C13_RotateArchives ==
    (Renamed /\ rotator = 1) =>
        /\ cpc[rotator] = "done"
        /\ bpc \in {"done", "none"}
        /\ ~fileOpen
        /\ \A src \in accepted \ afterClose : Count(file, src) = 1
        /\ Count(file, CloseLine(rotator).src) = 1
        /\ file = archived
        /\ Srcs(newFile) \subseteq {NewInitLine.src}
        /\ Len(newFile) <= 1

\* C14: for a direct logger, every Print call that has returned and found
\* the logger enabled has its line in the file, once; one that found it
\* disabled has left none; and nothing is buffered and no goroutine runs.
C14_DirectSynchronous ==
    ~IsBuffered =>
        /\ buffer = <<>>
        /\ bpc = "none"
        /\ \A c \in Callers : \A n \in 1..calls[c] :
              (n < calls[c] \/ pc[c] = "idle") =>
                  /\ PrintSrc(c, n) \in accepted => Count(file, PrintSrc(c, n)) = 1
                  /\ PrintSrc(c, n) \in dropped => PrintSrc(c, n) \notin Srcs(file)

\* C15: on the shutdown channel of a buffered logger the shutdown signal is
\* handed over first and the acknowledgment second, and nothing else; both
\* have been handed over when Close has returned; and from the shutdown
\* signal on asyncFlush is in no flush and waits for no timer.
C15_TwoHandoffs ==
    IsBuffered =>
        /\ handoffs \in {<<>>, <<"shutdown">>, <<"shutdown", "ack">>}
        /\ cpc[1] = "done" => Len(handoffs) = 2
        /\ handoffs # <<>> => bpc \in {"grow", "reslice", "copy", "ack", "done"}
        /\ Len(handoffs) = 2 => bpc = "done"

\* C15: a buffered logger closed once, after a timer flush wrote to its
\* file, with both handoffs done.
C15_Witness ==
    /\ IsBuffered
    /\ cpc = [k \in Closers |-> IF k = 1 THEN "done" ELSE "idle"]
    /\ handoffs = <<"shutdown", "ack">>
    /\ Len(file) > 2

\* C16: a timer flush begins exactly when the seconds asyncFlush sampled at
\* the start of the wait have passed; while it waits, no call changes the
\* sampled value; and the next wait begins with flushSec as it is then.
C16_IntervalSampling ==
    [][/\ (bpc = "select" /\ bpc' = "reset") => elapsed = sampled
       /\ (bpc = "select" /\ bpc' = "select") => sampled' = sampled
       /\ (bpc = "reset" /\ bpc' = "select") =>
              (sampled' = flushSec /\ elapsed' = 0)]_vars

\* C16: a wait that began with 1 second has ended after 1 second, although
\* SetFlushIntervalSec(5) was called during it; it had followed a wait of
\* 5 seconds during which SetFlushIntervalSec(1) was called.
C16_Witness ==
    /\ sampled = 1
    /\ elapsed = 1
    /\ bpc = "reset"
    /\ flushSec = DefaultFlushIntervalSec

\* A flush of the buffered logger writes the buffer out in this step.
FlushWrites ==
    \/ bpc = "select" /\ bpc' = "reset"
    \/ \E k \in Closers : cpc[k] = "flush" /\ cpc'[k] = "reset"

\* C17: a flush leaves the buffer empty, and a flush that follows another
\* with no append in between leaves the file as it was.
C17_IdempotentFlush ==
    [][/\ drained' => buffer' = <<>>
       /\ (drained /\ FlushWrites) => file' = file]_vars

\* C17: after a flush that wrote lines to the file and with no append
\* since, a second flush has written the buffer out.
C17_Witness == Alive /\ drained /\ bpc = "reset" /\ Len(file) > 0

\* C18: once Close of a buffered logger has returned, the file ends with the
\* close marker followed by the "Async log shutdown" line, and holds each
\* of them once.
C18_ClosedTail ==
    \A k \in Closers :
        (IsBuffered /\ cpc[k] = "done") =>
            /\ Len(file) >= 2
            /\ file[Len(file) - 1] = CloseLine(k)
            /\ file[Len(file)] = ShutdownLine
            /\ Count(file, CloseLine(k).src) = 1
            /\ Count(file, ShutdownLine.src) = 1

\* C19: no Print call that takes the read lock after a Close of a buffered
\* logger has returned is accepted, and after Close has returned no line of
\* a Print call is in the buffer.
C19_NothingAfterClose ==
    BufferedClosed =>
        /\ afterClose \cap accepted = {}
        /\ \A i \in 1..Len(buffer) : ~IsPrintSrc(buffer[i].src)

\* C20: a second Close of a buffered logger (Rotate's Close included) never
\* gets beyond its send on chClose and keeps the lock it asked for; from
\* its call on no Print call gets the read lock, and a Rotate that waits
\* for BaseDir or Name does not go on.
C20_SecondCloseBlocks ==
    [][(IsBuffered /\ cpc'[2] # "idle") =>
          /\ cpc[1] = "done"
          /\ cpc'[2] \in {"wait", "grow", "reslice", "copy", "send"}
          /\ lockW' = 2
          /\ cpc[2] # "idle" => (calls' = calls /\ rpc' = rpc)]_vars

\* C20: Rotate was called on a buffered logger that was closed before; its
\* Close holds the lock and waits in its send, asyncFlush having ended.
C20_Witness ==
    /\ IsBuffered
    /\ rotator = 2
    /\ cpc[2] = "send"
    /\ lockW = 2
    /\ bpc = "done"

====
